---------------------------- MODULE Spec2Model ----------------------------
(***************************************************************************)
(* A model of scripts/generate_worktree_info.py: the git path codec, the   *)
(* command gateway cmd(), the tree metadata collector and the publish      *)
(* pipeline main().  Bytes are naturals 0..255, byte strings are sequences *)
(* of bytes, a decoded text is a sequence of Unicode code points.          *)
(***************************************************************************)
EXTENDS Integers, Sequences, FiniteSets, TLC

VARIABLES
    \* decode_git_ls_tree_path on its own
    c_pc,        \* "path" (a path git has yet to quote), "raw", "done"
    c_path,      \* the path in the tree (bytes) when the input is git's quoting of one
    content,     \* argument of decode_git_ls_tree_path
    decoded,     \* its outcome: [exc, text]
    \* cmd() on its own
    g_pc,        \* "call", then "returned", "raised" (CalledProcessError) or "exited"
    g_cmds,      \* the command line
    g_result,    \* what subprocess.run observes: [returncode, stdout, stderr]
    g_allow_fail,
    g_value,     \* the bytes handed back to the caller
    g_exit,      \* the process's exit status, NotExited while it runs
    g_log,       \* the records logged, in order
    \* main() and the repository it runs in
    pc,          \* the statement main() is at, or how its process ended
    exit_status, \* the process's exit status, NotExited while it runs
    failed_at,   \* the statement a failed run stopped at
    repo,        \* the git repository, its remote and its working tree
    at_start,    \* the repository as the current run found it
    runs,        \* the outcome of every finished run, in order
    last_worktree_info_target,
    last_master_branch_commit,
    info_commit_hash,
    files_data,  \* collect_info_for_head_commit's dict
    files_path,  \* list(files_data.keys())
    fp_idx,      \* position of the second loop in files_path
    info,        \* the Snapshot collect_info_for_head_commit returned
    \* rdme_autogen's main() and the README it manages
    rd_pc,       \* "ready", then "returned"
    readme,      \* the file README.md: [exists, text]
    is_main,     \* GITHUB_REF == "refs/heads/main"
    rd_before,   \* README.md as the run found it
    rd_generated,\* README.md after the converter step
    rd_ok,       \* "noop" (no readme.toml), "ok" or "failed"
    rd_exit      \* main()'s return value, NotExited while it runs

codec_vars == <<c_pc, c_path, content, decoded>>
gateway_vars == <<g_pc, g_cmds, g_result, g_allow_fail, g_value, g_exit, g_log>>
pipeline_vars ==
    <<pc, exit_status, failed_at, repo, at_start, runs,
      last_worktree_info_target, last_master_branch_commit, info_commit_hash,
      files_data, files_path, fp_idx, info>>

readme_vars == <<rd_pc, readme, is_main, rd_before, rd_generated, rd_ok, rd_exit>>

vars == <<codec_vars, gateway_vars, pipeline_vars, readme_vars>>

---------------------------------------------------------------------------
(* Bounds of the model.                                                    *)

MaxRawLen == 5      \* longest enumerated argument of decode_git_ls_tree_path
MaxPathLen == 3     \* longest enumerated tree path handed to git's quoting

---------------------------------------------------------------------------
(* Sequence helpers.                                                       *)

Range(s) == {s[i] : i \in 1..Len(s)}

RECURSIVE SeqsUpTo(_, _)
SeqsUpTo(S, n) ==
    IF n = 0 THEN {<<>>}
    ELSE LET shorter == SeqsUpTo(S, n - 1)
         IN  shorter \cup {Append(s, x) : s \in {t \in shorter : Len(t) = n - 1}, x \in S}

---------------------------------------------------------------------------
(* Path codec: decode_git_ls_tree_path.                                    *)

DQUOTE == 34
BACKSLASH == 92

NoExc == "none"

Raise(kind) == [exc |-> kind, text |-> <<>>]

is_digit_in_ascii(c) == 48 <= c /\ c <= 57

\* bytes.startswith(b'"') and bytes.endswith(b'"')
StartsWithQuote(bs) == Len(bs) >= 1 /\ bs[1] = DQUOTE
EndsWithQuote(bs) == Len(bs) >= 1 /\ bs[Len(bs)] = DQUOTE

\* content[1:]
SliceFrom1(bs) == IF Len(bs) <= 1 THEN <<>> ELSE Tail(bs)

\* content[1:-1]
Slice1m1(bs) == IF Len(bs) <= 2 THEN <<>> ELSE SubSeq(bs, 2, Len(bs) - 1)

\* Python's eval of the bytes literal b"\<c>" for a non-digit byte c: the
\* bytes it denotes, or the exception the compiler raises.
EvalBytesEscape(c) ==
    CASE c = 0 -> [exc |-> "SyntaxError", value |-> <<>>]
      [] c >= 128 -> [exc |-> "SyntaxError", value |-> <<>>]
      [] c = 120 -> [exc |-> "SyntaxError", value |-> <<>>]      \* \x without hex digits
      [] c \in {10, 13} -> [exc |-> NoExc, value |-> <<>>]       \* line continuation
      [] c \in {BACKSLASH, DQUOTE, 39} -> [exc |-> NoExc, value |-> <<c>>]
      [] c = 97 -> [exc |-> NoExc, value |-> <<7>>]              \* \a
      [] c = 98 -> [exc |-> NoExc, value |-> <<8>>]              \* \b
      [] c = 102 -> [exc |-> NoExc, value |-> <<12>>]            \* \f
      [] c = 110 -> [exc |-> NoExc, value |-> <<10>>]            \* \n
      [] c = 114 -> [exc |-> NoExc, value |-> <<13>>]            \* \r
      [] c = 116 -> [exc |-> NoExc, value |-> <<9>>]             \* \t
      [] c = 118 -> [exc |-> NoExc, value |-> <<11>>]            \* \v
      [] c \in 48..55 -> [exc |-> NoExc, value |-> <<c - 48>>]   \* one-digit octal
      [] OTHER -> [exc |-> NoExc, value |-> <<BACKSLASH, c>>]    \* unknown escape is kept

\* The classes the clause `except SyntaxWarning or SyntaxError or AssertionError`
\* catches: the expression evaluates to its first operand.
CaughtEscapeErrors == {"SyntaxWarning"}

\* except-clause of the single-character escape: a caught class becomes the
\* codec's RuntimeError, any other propagates as it is.
EscapeFailure(kind) ==
    IF kind \in CaughtEscapeErrors THEN Raise("RuntimeError") ELSE Raise(kind)

IsCont(b) == 128 <= b /\ b <= 191

\* bytes.decode("utf-8"), strict: the code points, or <<-1>> at the first
\* malformed sequence (a code point is never negative).
RECURSIVE Utf8Decode(_, _)
Utf8Decode(bs, i) ==
    IF i > Len(bs) THEN <<>>
    ELSE LET b == bs[i]
             n == Len(bs)
             rest(k, cp) == LET r == Utf8Decode(bs, i + k)
                            IN  IF r = <<-1>> THEN r ELSE <<cp>> \o r
         IN  CASE b < 128 -> rest(1, b)
               [] b \in 194..223 /\ i + 1 <= n /\ IsCont(bs[i + 1]) ->
                    rest(2, (b - 192) * 64 + (bs[i + 1] - 128))
               [] b \in 224..239 /\ i + 2 <= n /\ IsCont(bs[i + 1]) /\ IsCont(bs[i + 2])
                    /\ (b = 224 => bs[i + 1] >= 160) /\ (b = 237 => bs[i + 1] <= 159) ->
                    rest(3, (b - 224) * 4096 + (bs[i + 1] - 128) * 64 + (bs[i + 2] - 128))
               [] b \in 240..244 /\ i + 3 <= n /\ IsCont(bs[i + 1]) /\ IsCont(bs[i + 2])
                    /\ IsCont(bs[i + 3])
                    /\ (b = 240 => bs[i + 1] >= 144) /\ (b = 244 => bs[i + 1] <= 143) ->
                    rest(4, (b - 240) * 262144 + (bs[i + 1] - 128) * 4096
                            + (bs[i + 2] - 128) * 64 + (bs[i + 3] - 128))
               [] OTHER -> <<-1>>

\* return bytes(escaped_array).decode("utf-8")
BytesThenDecode(escaped_array) ==
    IF \E i \in 1..Len(escaped_array) : escaped_array[i] > 255
    THEN Raise("ValueError")                       \* bytes(): must be in range(0, 256)
    ELSE LET cps == Utf8Decode(escaped_array, 1)
         IN  IF cps = <<-1>> THEN Raise("UnicodeDecodeError")
             ELSE [exc |-> NoExc, text |-> cps]

\* The while loop; idx is 1-based.
RECURSIVE DecodeLoop(_, _, _)
DecodeLoop(bs, idx, escaped_array) ==
    IF idx > Len(bs) THEN BytesThenDecode(escaped_array)
    ELSE IF bs[idx] # BACKSLASH
         THEN DecodeLoop(bs, idx + 1, Append(escaped_array, bs[idx]))
    ELSE IF idx + 1 > Len(bs) THEN Raise("RuntimeError")     \* dangling backslash
    ELSE LET escaped_alpha == bs[idx + 1]
         IN  IF is_digit_in_ascii(escaped_alpha)
             THEN IF idx + 3 > Len(bs)
                     \/ ~(is_digit_in_ascii(bs[idx + 2]) /\ is_digit_in_ascii(bs[idx + 3]))
                  THEN Raise("RuntimeError")                 \* wrong octal escape sequence
                  ELSE IF \E k \in 1..3 : bs[idx + k] > 55
                       THEN Raise("ValueError")              \* int(value_literal, 8)
                       ELSE DecodeLoop(bs, idx + 4,
                                Append(escaped_array,
                                       (bs[idx + 1] - 48) * 64 + (bs[idx + 2] - 48) * 8
                                       + (bs[idx + 3] - 48)))
             ELSE LET ev == EvalBytesEscape(escaped_alpha)
                  IN  IF ev.exc # NoExc THEN EscapeFailure(ev.exc)
                      ELSE IF Len(ev.value) # 1 THEN EscapeFailure("AssertionError")
                      ELSE DecodeLoop(bs, idx + 2, Append(escaped_array, ev.value[1]))

decode_git_ls_tree_path(bs) ==
    IF StartsWithQuote(bs)
    THEN IF ~EndsWithQuote(bs) THEN Raise("RuntimeError")    \* path ill-quoted
         ELSE DecodeLoop(Slice1m1(bs), 1, <<>>)
    ELSE DecodeLoop(bs, 1, <<>>)

---------------------------------------------------------------------------
(* git's quoting of a path in `ls-tree` output (quote_c_style with         *)
(* core.quotePath): the input the codec is written for.                    *)

NeedsQuoting(b) == b < 32 \/ b = DQUOTE \/ b = BACKSLASH \/ b >= 127

OctalDigits(b) == <<48 + (b \div 64), 48 + ((b \div 8) % 8), 48 + (b % 8)>>

QuoteByte(b) ==
    CASE b = DQUOTE -> <<BACKSLASH, DQUOTE>>
      [] b = BACKSLASH -> <<BACKSLASH, BACKSLASH>>
      [] b = 7 -> <<BACKSLASH, 97>>
      [] b = 8 -> <<BACKSLASH, 98>>
      [] b = 9 -> <<BACKSLASH, 116>>
      [] b = 10 -> <<BACKSLASH, 110>>
      [] b = 11 -> <<BACKSLASH, 118>>
      [] b = 12 -> <<BACKSLASH, 102>>
      [] b = 13 -> <<BACKSLASH, 114>>
      [] b < 32 \/ b >= 127 -> <<BACKSLASH>> \o OctalDigits(b)
      [] OTHER -> <<b>>

RECURSIVE QuoteBytes(_)
QuoteBytes(p) == IF p = <<>> THEN <<>> ELSE QuoteByte(Head(p)) \o QuoteBytes(Tail(p))

GitQuotePath(p) ==
    IF \E i \in 1..Len(p) : NeedsQuoting(p[i])
    THEN <<DQUOTE>> \o QuoteBytes(p) \o <<DQUOTE>>
    ELSE p

---------------------------------------------------------------------------
(* The codec's inputs.                                                     *)

\* '"', '\', '3', '7', '8', 'a', 't'
RawAlphabet == {DQUOTE, BACKSLASH, 51, 55, 56, 97, 116}

\* "a\303\251.txt" with its quotes: the octal escapes of a UTF-8 e-acute
OctalExample ==
    <<DQUOTE, 97, BACKSLASH, 51, 48, 51, BACKSLASH, 50, 53, 49, 46, 116, 120, 116, DQUOTE>>

RawInputs ==
    SeqsUpTo(RawAlphabet, MaxRawLen)
      \cup {OctalExample, <<BACKSLASH, 113>>, <<BACKSLASH, 120>>, <<BACKSLASH, 51, 55, 55>>}

\* '"', '\', ' ', 'a', '3': printable ASCII; and a tab, an e-acute, a DEL
PathAlphabet == {DQUOTE, BACKSLASH, 32, 97, 51}

TreePaths ==
    (SeqsUpTo(PathAlphabet, MaxPathLen) \ {<<>>})
      \cup {<<97, 9, 98>>, <<97, 195, 169, 46, 116, 120, 116>>, <<127>>}

NoPath == <<>>
NotDecoded == [exc |-> "pending", text |-> <<>>]

CodecIdle ==
    c_pc = "off" /\ c_path = NoPath /\ content = <<>> /\ decoded = NotDecoded

CodecStart ==
    /\ decoded = NotDecoded
    /\ \/ c_pc = "raw" /\ c_path = NoPath /\ content \in RawInputs
       \/ c_pc = "path" /\ c_path \in TreePaths /\ content = <<>>

\* git ls-tree prints the path quoted.
LsTreeQuote ==
    /\ c_pc = "path"
    /\ content' = GitQuotePath(c_path)
    /\ c_pc' = "raw"
    /\ UNCHANGED <<c_path, decoded>>
    /\ UNCHANGED <<gateway_vars, pipeline_vars, readme_vars>>

\* path = decode_git_ls_tree_path(path_raw)
Decode ==
    /\ c_pc = "raw"
    /\ decoded' = decode_git_ls_tree_path(content)
    /\ c_pc' = "done"
    /\ UNCHANGED <<c_path, content>>
    /\ UNCHANGED <<gateway_vars, pipeline_vars, readme_vars>>

---------------------------------------------------------------------------
(* VCS command gateway: cmd().                                             *)

MaxOutLen == 3      \* longest enumerated stdout of a command

\* bytes.strip() removes ASCII whitespace: tab, LF, VT, FF, CR, space
Whitespace == {9, 10, 11, 12, 13, 32}

RECURSIVE lstrip(_)
lstrip(bs) == IF bs # <<>> /\ Head(bs) \in Whitespace THEN lstrip(Tail(bs)) ELSE bs

RECURSIVE rstrip(_)
rstrip(bs) ==
    IF bs # <<>> /\ bs[Len(bs)] \in Whitespace THEN rstrip(SubSeq(bs, 1, Len(bs) - 1)) ELSE bs

strip(bs) == rstrip(lstrip(bs))

NoValue == <<-1>>
NotExited == -1

\* The five logger.warning calls of the except branch.
ErrorLog(cmds, result) ==
    << [what |-> "command", val |-> cmds],
       [what |-> "stdout", val |-> strip(result.stdout)],
       [what |-> "stderr", val |-> strip(result.stderr)],
       [what |-> "code", val |-> result.returncode],
       [what |-> "message", val |-> cmds] >>

\* A faulty cmd(): sys.exit(1) whatever allow_fail says.
cmd_ignoring_allow_fail(cmds, result, allow_fail) ==
    IF result.returncode = 0
    THEN [kind |-> "returned", value |-> strip(result.stdout), log |-> <<>>, exit |-> NotExited]
    ELSE [kind |-> "exited", value |-> NoValue, log |-> ErrorLog(cmds, result), exit |-> 1]

\* A faulty cmd(): result.stdout.rstrip() in place of strip().
cmd_not_trimming(cmds, result, allow_fail) ==
    IF result.returncode = 0
    THEN [kind |-> "returned", value |-> rstrip(result.stdout), log |-> <<>>, exit |-> NotExited]
    ELSE [kind |-> IF allow_fail THEN "raised" ELSE "exited",
          value |-> NoValue, log |-> ErrorLog(cmds, result),
          exit |-> IF allow_fail THEN NotExited ELSE 1]

\* cmd(cmds, allow_fail) given what subprocess.run(check=True) observes:
\* "returned" with result.stdout.strip(), "raised" (CalledProcessError
\* re-raised to the caller) or "exited" (sys.exit(1)).
cmd(cmds, result, allow_fail) ==
    IF result.returncode = 0
    THEN [kind |-> "returned", value |-> strip(result.stdout), log |-> <<>>, exit |-> NotExited]
    ELSE [kind |-> IF allow_fail THEN "raised" ELSE "exited",
          value |-> NoValue, log |-> ErrorLog(cmds, result),
          exit |-> IF allow_fail THEN NotExited ELSE 1]

Results ==
    [returncode : {0, 1, 128},
     stdout : SeqsUpTo({32, 10, 97}, MaxOutLen),
     stderr : {<<>>, <<101>>, <<101, 10>>}]

NoResult == [returncode |-> 0, stdout |-> <<>>, stderr |-> <<>>]

GatewayIdle ==
    /\ g_pc = "off" /\ g_cmds = "" /\ g_result = NoResult /\ g_allow_fail = FALSE
    /\ g_value = NoValue /\ g_exit = NotExited /\ g_log = <<>>

GatewayStart ==
    /\ g_pc = "call"
    /\ g_cmds \in {"git checkout", "git ls-tree"}
    /\ g_result \in Results
    /\ g_allow_fail \in BOOLEAN
    /\ g_value = NoValue /\ g_exit = NotExited /\ g_log = <<>>

\* One call of cmd().
CallCmd ==
    /\ g_pc = "call"
    /\ LET o == cmd(g_cmds, g_result, g_allow_fail)
       IN  /\ g_pc' = o.kind
           /\ g_value' = o.value
           /\ g_exit' = o.exit
           /\ g_log' = g_log \o o.log
    /\ UNCHANGED <<g_cmds, g_result, g_allow_fail>>
    /\ UNCHANGED <<codec_vars, pipeline_vars, readme_vars>>

---------------------------------------------------------------------------
(* Byte-string helpers of the collector and the marker check.              *)

NUL == 0
LF == 10
CR == 13

RECURSIVE Digits(_)
Digits(n) == IF n < 10 THEN <<48 + n>> ELSE Digits(n \div 10) \o <<48 + (n % 10)>>

\* int(bs) of a byte string: the number, or -1 for ValueError.  int() accepts
\* surrounding whitespace.
RECURSIVE DigitsValue(_)
DigitsValue(bs) ==
    IF Len(bs) = 1 THEN bs[1] - 48
    ELSE DigitsValue(SubSeq(bs, 1, Len(bs) - 1)) * 10 + (bs[Len(bs)] - 48)

ParseInt(bs) ==
    LET t == strip(bs)
    IN  IF t # <<>> /\ \A i \in 1..Len(t) : is_digit_in_ascii(t[i])
        THEN DigitsValue(t) ELSE -1

\* bytes.split(sep) for a one-byte separator.
RECURSIVE SplitOn(_, _)
SplitOn(bs, sep) ==
    IF \A i \in 1..Len(bs) : bs[i] # sep THEN <<bs>>
    ELSE LET i == CHOOSE k \in 1..Len(bs) :
                      bs[k] = sep /\ \A m \in 1..(k - 1) : bs[m] # sep
         IN  <<SubSeq(bs, 1, i - 1)>> \o SplitOn(SubSeq(bs, i + 1, Len(bs)), sep)

\* bytes.splitlines(): lines end at LF, CR or CR LF; no empty last line.
RECURSIVE SplitLines(_)
SplitLines(bs) ==
    IF bs = <<>> THEN <<>>
    ELSE IF \A i \in 1..Len(bs) : bs[i] \notin {LF, CR} THEN <<bs>>
    ELSE LET i == CHOOSE k \in 1..Len(bs) :
                      bs[k] \in {LF, CR} /\ \A m \in 1..(k - 1) : bs[m] \notin {LF, CR}
             skip == IF bs[i] = CR /\ i + 1 <= Len(bs) /\ bs[i + 1] = LF THEN 2 ELSE 1
         IN  <<SubSeq(bs, 1, i - 1)>> \o SplitLines(SubSeq(bs, i + skip, Len(bs)))

\* str.encode("utf-8") of a text (code points below 65536 suffice here).
RECURSIVE Utf8Encode(_)
Utf8Encode(cps) ==
    IF cps = <<>> THEN <<>>
    ELSE LET cp == Head(cps)
             enc == IF cp < 128 THEN <<cp>>
                    ELSE IF cp < 2048 THEN <<192 + (cp \div 64), 128 + (cp % 64)>>
                    ELSE <<224 + (cp \div 4096), 128 + ((cp \div 64) % 64), 128 + (cp % 64)>>
         IN  enc \o Utf8Encode(Tail(cps))

\* Lexicographic order of byte strings: the order of a tree's entries.
RECURSIVE LexLess(_, _)
LexLess(a, b) ==
    IF a = <<>> THEN b # <<>>
    ELSE IF b = <<>> THEN FALSE
    ELSE IF Head(a) # Head(b) THEN Head(a) < Head(b)
    ELSE LexLess(Tail(a), Tail(b))

RECURSIVE SortedPaths(_)
SortedPaths(S) ==
    IF S = {} THEN <<>>
    ELSE LET m == CHOOSE x \in S : \A y \in S \ {x} : LexLess(x, y)
         IN  <<m>> \o SortedPaths(S \ {m})

---------------------------------------------------------------------------
(* The git repository the script runs in.                                  *)
(*   repo.commits  sequence of [parent, tree, msg, time]; a commit's id is *)
(*                 its index, 0 is "no commit"                             *)
(*   repo.head     the branch HEAD points to                               *)
(*   repo.refs     local branches; 0 when the branch does not exist        *)
(*   repo.tracking origin/worktree as fetched; repo.remote the branch at   *)
(*                 origin itself                                           *)
(*   repo.index, repo.wt  the staged tree and the files on disk            *)
(*   repo.config   the user.* keys set; repo.graph: a commit-graph exists  *)

MaxRuns == 2        \* runs of main() in a row
MaxFiles == 2       \* files in the source tree
MaxReadmeLen == 4   \* symbols in the README.md a first run finds
MaxRenderLen == 2   \* symbols the converter writes after the heading
MaxTokens == 3      \* tokens in the target branch's initial commit message

NoCommit == 0
MaxCommits == 4 + MaxRuns

None == <<-1>>      \* Python's None

EmptyTree == [p \in {} |-> 0]
EmptyInfo == [p \in {} |-> 0]

Absent == [kind |-> "absent", size |-> 0, blob |-> 0, info |-> EmptyInfo]

Get(tree, p) == IF p \in DOMAIN tree THEN tree[p] ELSE Absent

Blob(size, id) == [kind |-> "blob", size |-> size, blob |-> id, info |-> EmptyInfo]

\* json.dump(obj, f, indent=2, ensure_ascii=False): the file's content is
\* determined by obj; its length grows with the number of entries.
JsonFile(obj) ==
    [kind |-> "json", size |-> 2 + 9 * Cardinality(DOMAIN obj), blob |-> 0, info |-> obj]

\* A file whose write stopped half way.
PartialFile == [kind |-> "partial", size |-> 1, blob |-> 0, info |-> EmptyInfo]

WORKTREE_JSON == <<119, 111, 114, 107, 116, 114, 101, 101, 46, 106, 115, 111, 110>>
HISTORY_DIR == <<104, 105, 115, 116, 111, 114, 121, 47>>
JSON_SUFFIX == <<46, 106, 115, 111, 110>>

\* A faulty name: one history file whatever the commit.
HistoryPath_one_name(hash) == HISTORY_DIR \o <<108>> \o JSON_SUFFIX

\* f"history/{info_commit_hash}.json"
HistoryPath(hash) == HISTORY_DIR \o hash \o JSON_SUFFIX

IsUnder(p, dir) == Len(p) > Len(dir) /\ SubSeq(p, 1, Len(dir)) = dir

\* The full hash of a commit: hex digits.
HashOf(c) == <<99, 48 + c>>

\* The commit date, a Unix time.
TimeOf(c) == 10 + c

MARKER_OPEN == <<60, 124>>
MARKER_CLOSE == <<124, 62>>
MESSAGE_PREFIX ==
    <<117, 112, 100, 97, 116, 101, 32, 119, 111, 114, 107, 116, 114, 101, 101, 32,
      105, 110, 102, 111, 32, 102, 111, 114, 32>>

\* A faulty message: the hash without its delimiters.
CommitMessage_bare_hash(hash) == MESSAGE_PREFIX \o hash

\* f"update worktree info for <|{info_commit_hash}|>"
CommitMessage(hash) == MESSAGE_PREFIX \o MARKER_OPEN \o hash \o MARKER_CLOSE

TreeOf(r, c) == IF c = NoCommit THEN EmptyTree ELSE r.commits[c].tree

HeadCommit(r) == r.refs[r.head]

\* c and its ancestors.
RECURSIVE Ancestors(_, _)
Ancestors(r, c) == IF c = NoCommit THEN {} ELSE {c} \cup Ancestors(r, r.commits[c].parent)

\* The commits of the target branch: of the local branch, of origin/worktree
\* and of the branch at origin.
TargetCommits(r) ==
    Ancestors(r, r.refs["worktree"]) \cup Ancestors(r, r.tracking) \cup Ancestors(r, r.remote)

Ok(out, r) == [returncode |-> 0, stdout |-> out, stderr |-> <<>>, repo |-> r]
Failed(code, r) == [returncode |-> code, stdout |-> <<>>, stderr |-> <<102>>, repo |-> r]

\* git rev-parse HEAD
GitRevParseHead(r) ==
    IF HeadCommit(r) = NoCommit THEN Failed(128, r)
    ELSE Ok(HashOf(HeadCommit(r)) \o <<LF>>, r)

\* A line git takes for blank: nothing but whitespace.
IsBlankLine(l) == \A i \in 1..Len(l) : l[i] \in Whitespace

\* The lines from the k-th up to the next blank line, each after a space.
RECURSIVE JoinParagraph(_, _)
JoinParagraph(lines, k) ==
    IF k > Len(lines) \/ IsBlankLine(lines[k]) THEN <<>>
    ELSE <<32>> \o lines[k] \o JoinParagraph(lines, k + 1)

\* The subject git prints for a commit message: its first paragraph (blank
\* lines before it skipped), the lines joined by spaces.
Subject(msg) ==
    LET lines == SplitOn(msg, LF)
        S == {k \in 1..Len(lines) : ~IsBlankLine(lines[k])}
    IN  IF S = {} THEN <<>>
        ELSE LET k == CHOOSE x \in S : \A y \in S : x <= y
             IN  lines[k] \o JoinParagraph(lines, k + 1)

\* git log -1 --oneline origin/<name> --   (hash, space, subject)
GitLogOneline(r) ==
    IF r.tracking = NoCommit THEN Failed(128, r)
    ELSE Ok(HashOf(r.tracking) \o <<32>> \o Subject(r.commits[r.tracking].msg) \o <<LF>>, r)

\* git commit-graph write --reachable
GitCommitGraphWrite(r) == Ok(<<>>, [r EXCEPT !.graph = TRUE])

\* git ls-tree -r HEAD --format=%(objectsize)%x00%(path)
RECURSIVE LsTreeLines(_, _)
LsTreeLines(tree, paths) ==
    IF paths = <<>> THEN <<>>
    ELSE Digits(tree[Head(paths)].size) \o <<NUL>> \o GitQuotePath(Head(paths)) \o <<LF>>
           \o LsTreeLines(tree, Tail(paths))

GitLsTree(r) ==
    IF HeadCommit(r) = NoCommit THEN Failed(128, r)
    ELSE LET tree == TreeOf(r, HeadCommit(r))
         IN  Ok(LsTreeLines(tree, SortedPaths(DOMAIN tree)), r)

\* The most recent commit, from c back, that changed the path; 0 if none.
RECURSIVE LastTouch(_, _, _)
LastTouch(r, c, path) ==
    IF c = NoCommit THEN NoCommit
    ELSE IF Get(TreeOf(r, c), path) # Get(TreeOf(r, r.commits[c].parent), path) THEN c
    ELSE LastTouch(r, r.commits[c].parent, path)

\* git log -1 --format=%cd%x00%H --date=unix -- <path>   (a pathspec
\* without glob characters names that path)
GitLogPath(r, path) ==
    IF HeadCommit(r) = NoCommit THEN Failed(128, r)
    ELSE LET c == LastTouch(r, HeadCommit(r), path)
         IN  IF c = NoCommit THEN Ok(<<>>, r)
             ELSE Ok(Digits(TimeOf(c)) \o <<NUL>> \o HashOf(c) \o <<LF>>, r)

\* The tree `base` with every path on which cur and new differ taken from new.
Switched(base, cur, new) ==
    LET differs(p) == Get(cur, p) # Get(new, p)
        dom == {p \in DOMAIN base \cup DOMAIN new :
                    IF differs(p) THEN p \in DOMAIN new ELSE p \in DOMAIN base}
    IN  [p \in dom |-> IF differs(p) THEN new[p] ELSE base[p]]

\* git checkout <name>: the local branch, or a new one on origin/<name>;
\* refused when it would overwrite a local change or an untracked file.
GitCheckout(r, name) ==
    LET t == IF r.refs[name] # NoCommit THEN r.refs[name] ELSE r.tracking
        cur == TreeOf(r, HeadCommit(r))
        new == TreeOf(r, t)
        clean == \A p \in DOMAIN cur \cup DOMAIN new :
                    Get(cur, p) # Get(new, p)
                       => Get(r.index, p) = Get(cur, p) /\ Get(r.wt, p) = Get(cur, p)
    IN  IF t = NoCommit THEN Failed(1, r)
        ELSE IF r.head = name THEN Ok(<<>>, r)
        ELSE IF ~clean THEN Failed(1, r)
        ELSE Ok(<<>>, [r EXCEPT !.head = name,
                                !.refs[name] = t,
                                !.index = Switched(r.index, cur, new),
                                !.wt = Switched(r.wt, cur, new)])

\* git checkout --orphan <name>: HEAD on an unborn branch, index and files kept.
GitCheckoutOrphan(r, name) ==
    IF r.refs[name] # NoCommit THEN Failed(128, r)
    ELSE Ok(<<>>, [r EXCEPT !.head = name])

\* A faulty git rm: nothing is removed.
GitRmAll_removing_nothing(r) ==
    IF DOMAIN r.index = {} THEN Failed(128, r) ELSE Ok(<<>>, r)

\* git rm -rf .
GitRmAll(r) ==
    IF DOMAIN r.index = {} THEN Failed(128, r)
    ELSE Ok(<<>>, [r EXCEPT !.index = EmptyTree,
                            !.wt = [p \in DOMAIN r.wt \ DOMAIN r.index |-> r.wt[p]]])

\* git config --local <key> <value>
GitConfig(r, key) == Ok(<<>>, [r EXCEPT !.config = @ \cup {key}])

\* git add worktree.json history/
GitAdd(r) ==
    LET named(p) == p = WORKTREE_JSON \/ IsUnder(p, HISTORY_DIR)
        dom == {p \in DOMAIN r.index \cup DOMAIN r.wt :
                    IF named(p) THEN p \in DOMAIN r.wt ELSE p \in DOMAIN r.index}
    IN  IF ~(WORKTREE_JSON \in DOMAIN r.wt /\ \E p \in DOMAIN r.wt : IsUnder(p, HISTORY_DIR))
        THEN Failed(128, r)
        ELSE Ok(<<>>, [r EXCEPT !.index =
                          [p \in dom |-> IF named(p) THEN r.wt[p] ELSE r.index[p]]])

\* git commit -m <msg>
GitCommit(r, msg) ==
    IF r.index = TreeOf(r, HeadCommit(r)) THEN Failed(1, r)      \* nothing to commit
    ELSE LET c == Len(r.commits) + 1
         IN  Ok(<<>>, [r EXCEPT
                  !.commits = Append(@, [parent |-> HeadCommit(r), tree |-> r.index,
                                         msg |-> msg, time |-> TimeOf(c)]),
                  !.refs[r.head] = c])

\* git push --set-upstream origin <name>: fast-forward only.
GitPush(r, name) ==
    IF r.refs[name] = NoCommit THEN Failed(1, r)
    ELSE IF r.remote # NoCommit /\ r.remote \notin Ancestors(r, r.refs[name]) THEN Failed(1, r)
    ELSE Ok(<<>>, [r EXCEPT !.remote = r.refs[name], !.tracking = r.refs[name]])

---------------------------------------------------------------------------
(* The process running main(), and what a failed command does to it.       *)

locals ==
    <<last_worktree_info_target, last_master_branch_commit, info_commit_hash,
      files_data, files_path, fp_idx, info>>

\* What a run left behind, recorded when its process ends.
Outcome(kind, r) ==
    [result |-> kind,
     source |-> r.refs["master"],
     before |-> Cardinality(TargetCommits(at_start)),
     after |-> Cardinality(TargetCommits(r))]

\* The process ends: return from main (status 0), sys.exit(1), or an
\* uncaught exception (status 1).
Finish(kind, status, r) ==
    /\ pc' = kind
    /\ exit_status' = status
    /\ failed_at' = IF status = 0 THEN "none" ELSE pc
    /\ repo' = r
    /\ runs' = Append(runs, Outcome(kind, r))

Continue(next, r) ==
    /\ pc' = next
    /\ repo' = r
    /\ UNCHANGED <<exit_status, failed_at, runs>>

\* What the command reports when the environment fails it (disk, lock,
\* network) instead of letting it run.
Faulted(res, fault) == IF fault THEN Failed(1, repo) ELSE res

\* How cmd() ends the process when it does not return: sys.exit(1), or a
\* CalledProcessError no caller catches.
Abort(o, r) ==
    IF o.kind = "exited" THEN Finish("exited", o.exit, r) ELSE Finish("crashed", 1, r)

\* A command on the must-succeed path whose output is not used.
MustSucceed(name, res, next) ==
    LET o == cmd(name, res, FALSE)
    IN  IF o.kind = "returned" THEN Continue(next, res.repo) ELSE Abort(o, res.repo)

\* A faulty order: the branch is switched before HEAD is compared with the marker.
ThenSwitchBeforeCheck(step) ==
    CASE step = "check_log" -> "checkout"
      [] step = "checkout" -> "check_head"
      [] step = "orphan" -> "rm"
      [] step = "rm" -> "check_head"
      [] step = "check_head" -> "publish_head"
      [] step = "publish_head" -> "commit_graph"
      [] step = "commit_graph" -> "ls_tree"
      [] step = "ls_tree" -> "log"
      [] step = "log" -> "save_worktree"
      [] step = "save_worktree" -> "save_history"
      [] step = "save_history" -> "config_email"
      [] step = "config_email" -> "config_name"
      [] step = "config_name" -> "add"
      [] step = "add" -> "commit"
      [] step = "commit" -> "push"
      [] step = "push" -> "done"

\* A faulty order: the branch is switched before the tree is collected.
ThenSwitchFirst(step) ==
    CASE step = "check_log" -> "check_head"
      [] step = "check_head" -> "publish_head"
      [] step = "publish_head" -> "checkout"
      [] step = "checkout" -> "commit_graph"
      [] step = "orphan" -> "rm"
      [] step = "rm" -> "commit_graph"
      [] step = "commit_graph" -> "ls_tree"
      [] step = "ls_tree" -> "log"
      [] step = "log" -> "save_worktree"
      [] step = "save_worktree" -> "save_history"
      [] step = "save_history" -> "config_email"
      [] step = "config_email" -> "config_name"
      [] step = "config_name" -> "add"
      [] step = "add" -> "commit"
      [] step = "commit" -> "push"
      [] step = "push" -> "done"

\* The order of the statements of main() and of the functions it calls:
\* the statement that follows `step` when `step` succeeds.  ("log" is the
\* last statement of collect_info_for_head_commit, "rm" the last of the
\* except branch of prepare_or_checkout_to_worktree_branch.)
Then(step) ==
    CASE step = "check_log" -> "check_head"
      [] step = "check_head" -> "publish_head"
      [] step = "publish_head" -> "commit_graph"
      [] step = "commit_graph" -> "ls_tree"
      [] step = "ls_tree" -> "log"
      [] step = "log" -> "checkout"
      [] step = "checkout" -> "save_worktree"
      [] step = "orphan" -> "rm"
      [] step = "rm" -> "save_worktree"
      [] step = "save_worktree" -> "save_history"
      [] step = "save_history" -> "config_email"
      [] step = "config_email" -> "config_name"
      [] step = "config_name" -> "add"
      [] step = "add" -> "commit"
      [] step = "commit" -> "push"
      [] step = "push" -> "done"

---------------------------------------------------------------------------
(* get_last_worktree_info_target and main().                               *)

IsMarkerChar(c) == (97 <= c /\ c <= 122) \/ (48 <= c /\ c <= 57)     \* [a-z0-9]

\* End of the longest run of [a-z0-9] that starts at position i (i - 1 if none).
RECURSIVE RunEnd(_, _)
RunEnd(bs, i) == IF i <= Len(bs) /\ IsMarkerChar(bs[i]) THEN RunEnd(bs, i + 1) ELSE i - 1

\* PAT matches at position i: <| [a-z0-9]+ |>
MatchAt(bs, i) ==
    /\ i + 1 <= Len(bs) /\ bs[i] = 60 /\ bs[i + 1] = 124
    /\ LET e == RunEnd(bs, i + 2)
       IN  e >= i + 2 /\ e + 2 <= Len(bs) /\ bs[e + 1] = 124 /\ bs[e + 2] = 62

\* PAT.search(bs): the group of the first match only.
RECURSIVE findall_first_only(_, _)
findall_first_only(bs, i) ==
    IF i > Len(bs) THEN <<>>
    ELSE IF MatchAt(bs, i) THEN <<SubSeq(bs, i + 2, RunEnd(bs, i + 2))>>
    ELSE findall_first_only(bs, i + 1)

\* PAT.findall(bs): the groups of the non-overlapping matches, left to right.
RECURSIVE findall(_, _)
findall(bs, i) ==
    IF i > Len(bs) THEN <<>>
    ELSE IF MatchAt(bs, i)
         THEN LET e == RunEnd(bs, i + 2)
              IN  <<SubSeq(bs, i + 2, e)>> \o findall(bs, e + 3)
    ELSE findall(bs, i + 1)

\* get_last_worktree_info_target("worktree"): the marker of origin/worktree's
\* last commit, or None.
CheckLog ==
    /\ pc = "check_log"
    /\ LET o == cmd("git log", GitLogOneline(repo), TRUE)
           match_result == findall(o.value, 1)
       IN  IF o.kind = "exited"
           THEN Abort(o, repo) /\ UNCHANGED last_worktree_info_target
           ELSE /\ last_worktree_info_target' =
                       IF o.kind = "raised" THEN None
                       ELSE IF Len(match_result) # 1 THEN None
                       ELSE match_result[1]
                /\ Continue(Then("check_log"), repo)
    /\ UNCHANGED <<last_master_branch_commit, info_commit_hash, files_data, files_path,
                   fp_idx, info, at_start>>
    /\ UNCHANGED <<codec_vars, gateway_vars, readme_vars>>

\* main(): last_master_branch_commit = cmd(rev-parse HEAD); return when the
\* marker equals it.
CheckHead ==
    /\ pc = "check_head"
    /\ \E fault \in BOOLEAN :
         LET res == Faulted(GitRevParseHead(repo), fault)
             o == cmd("git rev-parse", res, FALSE)
         IN  IF o.kind # "returned"
             THEN Abort(o, res.repo) /\ UNCHANGED last_master_branch_commit
             ELSE /\ last_master_branch_commit' = o.value
                  /\ IF last_worktree_info_target = o.value
                     THEN Finish("up_to_date", 0, res.repo)
                     ELSE Continue(Then("check_head"), res.repo)
    /\ UNCHANGED <<last_worktree_info_target, info_commit_hash, files_data, files_path,
                   fp_idx, info, at_start>>
    /\ UNCHANGED <<codec_vars, gateway_vars, readme_vars>>

\* collect_info_and_saved_to_another_branch: info_commit_hash = cmd(rev-parse HEAD)
PublishHead ==
    /\ pc = "publish_head"
    /\ \E fault \in BOOLEAN :
         LET res == Faulted(GitRevParseHead(repo), fault)
             o == cmd("git rev-parse", res, FALSE)
         IN  IF o.kind # "returned"
             THEN Abort(o, res.repo) /\ UNCHANGED info_commit_hash
             ELSE info_commit_hash' = o.value /\ Continue(Then("publish_head"), res.repo)
    /\ UNCHANGED <<last_worktree_info_target, last_master_branch_commit, files_data,
                   files_path, fp_idx, info, at_start>>
    /\ UNCHANGED <<codec_vars, gateway_vars, readme_vars>>

---------------------------------------------------------------------------
(* collect_info_for_head_commit.                                           *)

CommitGraph ==
    /\ pc = "commit_graph"
    /\ \E fault \in BOOLEAN :
         MustSucceed("git commit-graph", Faulted(GitCommitGraphWrite(repo), fault),
                     Then("commit_graph"))
    /\ UNCHANGED <<locals, at_start>>
    /\ UNCHANGED <<codec_vars, gateway_vars, readme_vars>>

NoEntry == [size |-> -1, time |-> -1, hash |-> <<>>]

\* d with d[key] = value.
Put(d, key, value) == [p \in DOMAIN d \cup {key} |-> IF p = key THEN value ELSE d[p]]

\* The first loop: files_data[path] = {"size": int(size)} line by line;
\* order is the dict's insertion order.
RECURSIVE ParseLsTree(_, _, _, _)
ParseLsTree(lines, k, data, order) ==
    IF k > Len(lines) THEN [exc |-> NoExc, data |-> data, order |-> order]
    ELSE LET parts == SplitOn(lines[k], NUL)
         IN  IF Len(parts) # 2 THEN [exc |-> "ValueError", data |-> data, order |-> order]
             ELSE LET path == decode_git_ls_tree_path(parts[2])
                      size == ParseInt(parts[1])
                  IN  IF path.exc # NoExc
                      THEN [exc |-> path.exc, data |-> data, order |-> order]
                      ELSE IF size = -1
                      THEN [exc |-> "ValueError", data |-> data, order |-> order]
                      ELSE ParseLsTree(lines, k + 1,
                               Put(data, path.text, [NoEntry EXCEPT !.size = size]),
                               IF path.text \in DOMAIN data THEN order
                               ELSE Append(order, path.text))

LsTree ==
    /\ pc = "ls_tree"
    /\ \E fault \in BOOLEAN :
         LET res == Faulted(GitLsTree(repo), fault)
             o == cmd("git ls-tree", res, FALSE)
             parsed == ParseLsTree(SplitLines(o.value), 1, EmptyInfo, <<>>)
         IN  IF o.kind # "returned"
             THEN Abort(o, res.repo)
                  /\ UNCHANGED <<files_data, files_path, fp_idx, info>>
             ELSE /\ files_data' = parsed.data
                  /\ files_path' = parsed.order
                  /\ fp_idx' = 1
                  /\ IF parsed.exc # NoExc
                     THEN Finish("crashed", 1, res.repo) /\ UNCHANGED info
                     ELSE IF parsed.order = <<>>
                     THEN info' = parsed.data /\ Continue(Then("log"), res.repo)
                     ELSE Continue(Then("ls_tree"), res.repo) /\ UNCHANGED info
    /\ UNCHANGED <<last_worktree_info_target, last_master_branch_commit, info_commit_hash,
                   at_start>>
    /\ UNCHANGED <<codec_vars, gateway_vars, readme_vars>>

\* A faulty second loop: a query without a result leaves the entry as the
\* first loop made it and the loop goes on.
LogStep_skipping_missing ==
    /\ pc = "log"
    /\ \E fault \in BOOLEAN :
         LET file_path == files_path[fp_idx]
             res == Faulted(GitLogPath(repo, Utf8Encode(file_path)), fault)
             o == cmd("git log", res, FALSE)
             parts == SplitOn(o.value, NUL)
             data == IF Len(parts) # 2 THEN files_data
                     ELSE Put(files_data, file_path,
                              [files_data[file_path] EXCEPT !.time = ParseInt(parts[1]),
                                                            !.hash = parts[2]])
         IN  IF o.kind # "returned"
             THEN Abort(o, res.repo)
                  /\ UNCHANGED <<files_data, fp_idx, info>>
             ELSE /\ files_data' = data
                  /\ fp_idx' = fp_idx + 1
                  /\ IF fp_idx = Len(files_path)
                     THEN info' = data /\ Continue(Then("log"), res.repo)
                     ELSE Continue("log", res.repo) /\ UNCHANGED info
    /\ UNCHANGED <<last_worktree_info_target, last_master_branch_commit, info_commit_hash,
                   files_path, at_start>>
    /\ UNCHANGED <<codec_vars, gateway_vars, readme_vars>>

\* One round of the second loop: git log -1 for files_path[fp_idx]; after
\* the last round the function returns files_data.
LogStep ==
    /\ pc = "log"
    /\ \E fault \in BOOLEAN :
         LET file_path == files_path[fp_idx]
             res == Faulted(GitLogPath(repo, Utf8Encode(file_path)), fault)
             o == cmd("git log", res, FALSE)
             parts == SplitOn(o.value, NUL)
             timestamp == ParseInt(parts[1])
             data == Put(files_data, file_path,
                         [files_data[file_path] EXCEPT !.time = timestamp, !.hash = parts[2]])
         IN  IF o.kind # "returned"
             THEN Abort(o, res.repo)
                  /\ UNCHANGED <<files_data, fp_idx, info>>
             ELSE IF Len(parts) # 2 \/ timestamp = -1
             THEN Finish("crashed", 1, res.repo)
                  /\ UNCHANGED <<files_data, fp_idx, info>>
             ELSE /\ files_data' = data
                  /\ fp_idx' = fp_idx + 1
                  /\ IF fp_idx = Len(files_path)
                     THEN info' = data /\ Continue(Then("log"), res.repo)
                     ELSE Continue("log", res.repo) /\ UNCHANGED info
    /\ UNCHANGED <<last_worktree_info_target, last_master_branch_commit, info_commit_hash,
                   files_path, at_start>>
    /\ UNCHANGED <<codec_vars, gateway_vars, readme_vars>>

---------------------------------------------------------------------------
(* prepare_or_checkout_to_worktree_branch, save_json, prepare_user_info    *)
(* and the rest of collect_info_and_saved_to_another_branch.               *)

WORKTREE_BRANCH == "worktree"

\* cmd(["git", "checkout", name], allow_fail=True)
Checkout ==
    /\ pc = "checkout"
    /\ LET res == GitCheckout(repo, WORKTREE_BRANCH)
           o == cmd("git checkout", res, TRUE)
       IN  CASE o.kind = "returned" -> Continue(Then("checkout"), res.repo)
             [] o.kind = "raised" -> Continue("orphan", res.repo)
             [] OTHER -> Abort(o, res.repo)
    /\ UNCHANGED <<locals, at_start>>
    /\ UNCHANGED <<codec_vars, gateway_vars, readme_vars>>

Orphan ==
    /\ pc = "orphan"
    /\ \E fault \in BOOLEAN :
         MustSucceed("git checkout --orphan",
                     Faulted(GitCheckoutOrphan(repo, WORKTREE_BRANCH), fault), Then("orphan"))
    /\ UNCHANGED <<locals, at_start>>
    /\ UNCHANGED <<codec_vars, gateway_vars, readme_vars>>

Rm ==
    /\ pc = "rm"
    /\ \E fault \in BOOLEAN :
         MustSucceed("git rm", Faulted(GitRmAll(repo), fault), Then("rm"))
    /\ UNCHANGED <<locals, at_start>>
    /\ UNCHANGED <<codec_vars, gateway_vars, readme_vars>>

\* save_json(path, obj): the file holds obj; when the write fails (OSError)
\* the file is as it was or cut short, and the exception ends the process.
save_json(path, obj, next) ==
    \E written \in {"all", "none", "part"} :
        CASE written = "all" -> Continue(next, [repo EXCEPT !.wt = Put(@, path, JsonFile(obj))])
          [] written = "none" -> Finish("crashed", 1, repo)
          [] written = "part" ->
                Finish("crashed", 1, [repo EXCEPT !.wt = Put(@, path, PartialFile)])

SaveWorktree ==
    /\ pc = "save_worktree"
    /\ save_json(WORKTREE_JSON, info, Then("save_worktree"))
    /\ UNCHANGED <<locals, at_start>>
    /\ UNCHANGED <<codec_vars, gateway_vars, readme_vars>>

SaveHistory ==
    /\ pc = "save_history"
    /\ save_json(HistoryPath(info_commit_hash), info, Then("save_history"))
    /\ UNCHANGED <<locals, at_start>>
    /\ UNCHANGED <<codec_vars, gateway_vars, readme_vars>>

ConfigEmail ==
    /\ pc = "config_email"
    /\ \E fault \in BOOLEAN :
         MustSucceed("git config", Faulted(GitConfig(repo, "user.email"), fault),
                     Then("config_email"))
    /\ UNCHANGED <<locals, at_start>>
    /\ UNCHANGED <<codec_vars, gateway_vars, readme_vars>>

ConfigName ==
    /\ pc = "config_name"
    /\ \E fault \in BOOLEAN :
         MustSucceed("git config", Faulted(GitConfig(repo, "user.name"), fault),
                     Then("config_name"))
    /\ UNCHANGED <<locals, at_start>>
    /\ UNCHANGED <<codec_vars, gateway_vars, readme_vars>>

Add ==
    /\ pc = "add"
    /\ \E fault \in BOOLEAN :
         MustSucceed("git add", Faulted(GitAdd(repo), fault), Then("add"))
    /\ UNCHANGED <<locals, at_start>>
    /\ UNCHANGED <<codec_vars, gateway_vars, readme_vars>>

Commit ==
    /\ pc = "commit"
    /\ Len(repo.commits) < MaxCommits
    /\ \E fault \in BOOLEAN :
         MustSucceed("git commit",
                     Faulted(GitCommit(repo, CommitMessage(info_commit_hash)), fault),
                     Then("commit"))
    /\ UNCHANGED <<locals, at_start>>
    /\ UNCHANGED <<codec_vars, gateway_vars, readme_vars>>

\* The push; after it main() returns.
Push ==
    /\ pc = "push"
    /\ \E fault \in BOOLEAN :
         LET res == Faulted(GitPush(repo, WORKTREE_BRANCH), fault)
             o == cmd("git push", res, FALSE)
         IN  IF o.kind = "returned" THEN Finish(Then("push"), 0, res.repo)
             ELSE Abort(o, res.repo)
    /\ UNCHANGED <<locals, at_start>>
    /\ UNCHANGED <<codec_vars, gateway_vars, readme_vars>>

\* The script is started again in the repository as the last run left it;
\* a run that failed ends the job, and nothing is run after it.
StartRun ==
    /\ pc \in {"up_to_date", "done"}
    /\ Len(runs) < MaxRuns
    /\ pc' = "check_log"
    /\ exit_status' = NotExited
    /\ failed_at' = "none"
    /\ last_worktree_info_target' = None
    /\ last_master_branch_commit' = None
    /\ info_commit_hash' = None
    /\ files_data' = EmptyInfo
    /\ files_path' = <<>>
    /\ fp_idx' = 0
    /\ info' = EmptyInfo
    /\ at_start' = repo
    /\ UNCHANGED <<repo, runs>>
    /\ UNCHANGED <<codec_vars, gateway_vars, readme_vars>>

---------------------------------------------------------------------------
(* Initial repositories.                                                   *)

\* A source history on master: each file of S was added by the first commit
\* (1), added by the second (2), or added by the first and changed by the
\* second (3).
SourceCommits(S, born) ==
    LET first == [parent |-> NoCommit,
                  tree |-> [p \in {q \in S : born[q] # 2} |-> Blob(5, 1)],
                  msg |-> <<105>>, time |-> TimeOf(1)]
        second == [parent |-> 1,
                   tree |-> [p \in S |-> IF born[p] = 1 THEN Blob(5, 1)
                                         ELSE IF born[p] = 2 THEN Blob(10, 2)
                                         ELSE Blob(7, 3)],
                   msg |-> <<105>>, time |-> TimeOf(2)]
    IN  IF \A p \in S : born[p] = 1 THEN <<first>> ELSE <<first, second>>

\* A fresh checkout of master.
Cloned(commits) ==
    [commits |-> commits,
     head |-> "master",
     refs |-> [master |-> Len(commits), worktree |-> NoCommit],
     tracking |-> NoCommit,
     remote |-> NoCommit,
     index |-> commits[Len(commits)].tree,
     wt |-> commits[Len(commits)].tree,
     config |-> {},
     graph |-> FALSE]

\* origin already has a worktree branch whose last commit says msg; the
\* checkout fetched it or not.
WithTarget(r, msg, fetched) ==
    LET t == Len(r.commits) + 1
    IN  [r EXCEPT
           !.commits = Append(@, [parent |-> NoCommit,
                                  tree |-> [p \in {WORKTREE_JSON, HistoryPath(HashOf(0))}
                                              |-> JsonFile(EmptyInfo)],
                                  msg |-> msg, time |-> TimeOf(t)]),
           !.remote = t,
           !.tracking = IF fetched THEN t ELSE NoCommit]

MarkerOf(hash) == MARKER_OPEN \o hash \o MARKER_CLOSE

\* The blank line between the paragraphs of a commit message.
PARAGRAPH_BREAK == <<LF, LF>>

\* Pieces of commit messages: markers of the two source commits, a marker
\* cut short (the opening delimiter and an upper-case letter), a paragraph
\* break.
MessageTokens ==
    {MarkerOf(HashOf(1)), MarkerOf(HashOf(2)), MARKER_OPEN \o <<67>>, PARAGRAPH_BREAK}

RECURSIVE Concat(_)
Concat(ss) == IF ss = <<>> THEN <<>> ELSE Head(ss) \o Concat(Tail(ss))

Messages == {Concat(ts) : ts \in SeqsUpTo(MessageTokens, MaxTokens)}

Histories(paths, kinds) ==
    UNION {{SourceCommits(S, born) : born \in [S -> kinds]} :
              S \in {T \in SUBSET paths : Cardinality(T) <= MaxFiles}}

\* "a", "b"
PipelinePaths == {<<97>>, <<98>>}

\* Fresh checkouts: origin has no worktree branch, or one that was fetched
\* (any message), or one that was not (its message is never read).
PipelineRepos ==
    LET clones == {Cloned(h) : h \in Histories(PipelinePaths, {1, 2})}
    IN  clones \cup {WithTarget(r, m, TRUE) : r \in clones, m \in Messages}
               \cup {WithTarget(r, <<>>, FALSE) : r \in clones}

\* "a", "b", "a " (trailing space), " a", "a b", a quote, a backslash, a tab,
\* an e-acute
CollectorPaths ==
    {<<97>>, <<98>>, <<97, 32>>, <<32, 97>>, <<97, 32, 98>>, <<97, 34>>, <<92, 97>>,
     <<97, 9>>, <<195, 169>>}

CollectorRepos == {Cloned(h) : h \in Histories(CollectorPaths, {1, 2, 3})}

RunStart(repos, at) ==
    /\ repo \in repos
    /\ at_start = repo
    /\ pc = at
    /\ exit_status = NotExited
    /\ failed_at = "none"
    /\ last_worktree_info_target = None
    /\ last_master_branch_commit = None
    /\ info_commit_hash = None
    /\ files_data = EmptyInfo
    /\ files_path = <<>>
    /\ fp_idx = 0
    /\ info = EmptyInfo
    /\ runs = <<>>

PipelineIdle ==
    /\ repo = Cloned(SourceCommits({}, EmptyInfo))
    /\ at_start = repo
    /\ pc = "off"
    /\ exit_status = NotExited
    /\ failed_at = "none"
    /\ last_worktree_info_target = None
    /\ last_master_branch_commit = None
    /\ info_commit_hash = None
    /\ files_data = EmptyInfo
    /\ files_path = <<>>
    /\ fp_idx = 0
    /\ info = EmptyInfo
    /\ runs = <<>>

---------------------------------------------------------------------------
(* rdme_autogen.py: the warning block of README.md.  A text is a sequence  *)
(* of symbols; each marker is one symbol, since no marker overlaps itself, *)
(* the other marker or a newline.                                          *)

WARNING_START == 1      \* "<!-- RDME_TOML_AUTOGEN_WARNING_START -->"
WARNING_END == 2        \* "<!-- RDME_TOML_AUTOGEN_WARNING_END -->"
WARNING_HEAD == 3       \* "> [!WARNING]"
WARNING_MESSAGE == 4    \* "> " and the message main() passes
HEADING == 35           \* the "# ..." line the converter starts with
LETTER == 120           \* any other character that is not white space

ReadmeAlphabet == {WARNING_START, WARNING_END, LF, CR, LETTER}

File(text) == [exists |-> TRUE, text |-> text]
NoFile == [exists |-> FALSE, text |-> <<>>]

\* The position of the first sym in text, 0 when there is none (str.find).
RECURSIVE find_from(_, _, _)
find_from(text, sym, i) ==
    IF i > Len(text) THEN 0
    ELSE IF text[i] = sym THEN i ELSE find_from(text, sym, i + 1)

find(text, sym) == find_from(text, sym, 1)

\* text.replace("\r\n", "\n").replace("\r", "\n")
RECURSIVE _normalize_newlines(_)
_normalize_newlines(text) ==
    IF text = <<>> THEN <<>>
    ELSE IF Head(text) = CR /\ Len(text) >= 2 /\ text[2] = LF
         THEN <<LF>> \o _normalize_newlines(Tail(Tail(text)))
    ELSE IF Head(text) = CR THEN <<LF>> \o _normalize_newlines(Tail(text))
    ELSE <<Head(text)>> \o _normalize_newlines(Tail(text))

\* "\n".join([WARNING_START, "> [!WARNING]", f"> {msg}", WARNING_END, "", ""])
_build_block ==
    <<WARNING_START, LF, WARNING_HEAD, LF, WARNING_MESSAGE, LF, WARNING_END, LF, LF>>

\* text.lstrip("\n"), and the loop `while after.startswith("\n")`
RECURSIVE lstrip_newlines(_)
lstrip_newlines(text) ==
    IF text # <<>> /\ Head(text) = LF THEN lstrip_newlines(Tail(text)) ELSE text

_strip_block(text) ==
    LET start == find(text, WARNING_START)
        end == find(text, WARNING_END)
        after == lstrip_newlines(SubSeq(text, end + 1, Len(text)))
        cut == SubSeq(text, 1, start - 1)
        before == IF cut # <<>> /\ cut[Len(cut)] = LF
                  THEN SubSeq(cut, 1, Len(cut) - 1) ELSE cut
        out == IF before # <<>> THEN before \o <<LF>> \o after ELSE after
    IN  IF start = 0 THEN text
        ELSE IF end = 0 THEN text
        ELSE lstrip_newlines(out)

_ensure_block_at_top(text) ==
    LET stripped == _strip_block(text)
    IN  IF strip(stripped) = <<>> THEN _build_block
        ELSE _build_block \o lstrip_newlines(stripped)

\* The file _update_warning leaves.
_update_warning(file, set_warning) ==
    LET text == IF file.exists THEN _normalize_newlines(file.text) ELSE <<>>
        new_text == IF set_warning THEN _ensure_block_at_top(text)
                    ELSE _strip_block(text)
    IN  IF new_text # text THEN File(new_text) ELSE file

\* What convert_toml_to_readme.py writes: a heading, more lines, no white
\* space at the end but one newline.
Rendered ==
    { rstrip(<<HEADING>> \o t) \o <<LF>> : t \in SeqsUpTo({LETTER, LF}, MaxRenderLen) }

ReadmeIdle ==
    /\ rd_pc = "off" /\ readme = NoFile /\ is_main = FALSE
    /\ rd_before = NoFile /\ rd_generated = NoFile
    /\ rd_ok = "none" /\ rd_exit = NotExited

ReadmeStart ==
    /\ rd_pc = "ready"
    /\ readme \in {NoFile} \cup { File(t) : t \in SeqsUpTo(ReadmeAlphabet, MaxReadmeLen) }
    /\ is_main \in BOOLEAN
    /\ rd_before = readme /\ rd_generated = readme
    /\ rd_ok = "none" /\ rd_exit = NotExited

\* main(): no readme.toml, or formatting, download and conversion with
\* their outcomes, then the warning block on main.
RdmeMain ==
    /\ rd_pc = "ready"
    /\ \E toml_exists \in BOOLEAN, fmt_ok \in BOOLEAN, gen_ok \in BOOLEAN,
          rendered \in Rendered :
          LET generated == IF gen_ok THEN File(rendered) ELSE readme
              ok == fmt_ok /\ gen_ok
          IN  IF ~toml_exists
              THEN /\ readme' = readme
                   /\ rd_generated' = readme
                   /\ rd_ok' = "noop"
                   /\ rd_exit' = 0
              ELSE /\ rd_generated' = generated
                   /\ readme' = IF is_main THEN _update_warning(generated, ~ok)
                                 ELSE generated
                   /\ rd_ok' = IF ok THEN "ok" ELSE "failed"
                   /\ rd_exit' = IF ok THEN 0 ELSE 1
    /\ rd_before' = readme
    /\ rd_pc' = "returned"
    /\ UNCHANGED is_main
    /\ UNCHANGED <<codec_vars, gateway_vars, pipeline_vars>>

\* The workflow runs the script again, on any branch.
RdmeRerun ==
    /\ rd_pc = "returned"
    /\ rd_pc' = "ready"
    /\ is_main' \in BOOLEAN
    /\ rd_before' = readme /\ rd_generated' = readme
    /\ rd_ok' = "none" /\ rd_exit' = NotExited
    /\ UNCHANGED readme
    /\ UNCHANGED <<codec_vars, gateway_vars, pipeline_vars>>

ReadmeInit == ReadmeStart /\ CodecIdle /\ GatewayIdle /\ PipelineIdle
ReadmeNext == RdmeMain \/ RdmeRerun
SpecReadme == ReadmeInit /\ [][ReadmeNext]_vars

---------------------------------------------------------------------------
(* Specifications.                                                         *)

\* main(), run up to MaxRuns times in a row in one repository.
Init == RunStart(PipelineRepos, "check_log") /\ CodecIdle /\ GatewayIdle /\ ReadmeIdle
Next ==
    \/ CheckLog \/ CheckHead \/ PublishHead
    \/ CommitGraph \/ LsTree \/ LogStep
    \/ Checkout \/ Orphan \/ Rm \/ SaveWorktree \/ SaveHistory
    \/ ConfigEmail \/ ConfigName \/ Add \/ Commit \/ Push
    \/ StartRun
Spec == Init /\ [][Next]_vars

\* collect_info_for_head_commit on its own, over trees with awkward paths.
CollectInit == RunStart(CollectorRepos, "commit_graph") /\ CodecIdle /\ GatewayIdle /\ ReadmeIdle
CollectNext == CommitGraph \/ LsTree \/ LogStep
SpecCollect == CollectInit /\ [][CollectNext]_vars

\* decode_git_ls_tree_path on its own.
CodecInit == CodecStart /\ GatewayIdle /\ PipelineIdle /\ ReadmeIdle
CodecNext == LsTreeQuote \/ Decode
SpecCodec == CodecInit /\ [][CodecNext]_vars

\* cmd() on its own.
GatewayInit == GatewayStart /\ CodecIdle /\ PipelineIdle /\ ReadmeIdle
GatewayNext == CallCmd
SpecGateway == GatewayInit /\ [][GatewayNext]_vars

\* "a", "a " (trailing space)
OddPaths == {<<97>>, <<97, 32>>}

\* Fresh checkouts of trees with a path that ends in a space: origin has no
\* worktree branch, or one made by another tool, fetched or not.
OddPathRepos ==
    LET clones == {Cloned(h) : h \in Histories(OddPaths, {1, 2})}
    IN  clones \cup {WithTarget(r, <<>>, f) : r \in clones, f \in BOOLEAN}

\* main() in repositories whose tree holds such a path.
OddPathInit == RunStart(OddPathRepos, "check_log") /\ CodecIdle /\ GatewayIdle /\ ReadmeIdle
SpecOddPaths == OddPathInit /\ [][Next]_vars

\* The commits of the source history: those that are no commit of the
\* target branch.
SourceHistory(r) == (1..Len(r.commits)) \ TargetCommits(r)

\* The job that runs the script starts over after a run that succeeded: it
\* checks the source branch out again, at a commit the branch was moved to
\* (a new commit, or an old one after a revert), and starts main().
Recheckout ==
    /\ pc \in {"up_to_date", "done"}
    /\ Len(runs) < MaxRuns + 1
    /\ \E k \in SourceHistory(repo) :
         /\ repo' = [repo EXCEPT !.head = "master", !.refs["master"] = k,
                                 !.index = TreeOf(repo, k), !.wt = TreeOf(repo, k)]
         /\ at_start' = repo'
    /\ pc' = "check_log"
    /\ exit_status' = NotExited
    /\ failed_at' = "none"
    /\ last_worktree_info_target' = None
    /\ last_master_branch_commit' = None
    /\ info_commit_hash' = None
    /\ files_data' = EmptyInfo
    /\ files_path' = <<>>
    /\ fp_idx' = 0
    /\ info' = EmptyInfo
    /\ UNCHANGED runs
    /\ UNCHANGED <<codec_vars, gateway_vars, readme_vars>>

\* Fresh checkouts: origin has no worktree branch, or a fetched one whose
\* last commit carries no marker.
RepublishRepos ==
    LET clones == {Cloned(h) : h \in Histories(PipelinePaths, {1, 2})}
    IN  clones \cup {WithTarget(r, <<>>, TRUE) : r \in clones}

\* main() run again and again while the source branch moves.
RepublishInit == RunStart(RepublishRepos, "check_log") /\ CodecIdle /\ GatewayIdle /\ ReadmeIdle
RepublishNext ==
    \/ CheckLog \/ CheckHead \/ PublishHead
    \/ CommitGraph \/ LsTree \/ LogStep
    \/ Checkout \/ Orphan \/ Rm \/ SaveWorktree \/ SaveHistory
    \/ ConfigEmail \/ ConfigName \/ Add \/ Commit \/ Push
    \/ StartRun \/ Recheckout
SpecRepublish == RepublishInit /\ [][RepublishNext]_vars

---------------------------------------------------------------------------
(* Claims about the path codec.                                            *)

\* The argument with its enclosing quotes removed, as the scan sees it.
Body(bs) == IF StartsWithQuote(bs) /\ EndsWithQuote(bs) THEN Slice1m1(bs) ELSE bs

\* Number of consecutive backslashes that end just before position i.
BackslashRun(bs, i) ==
    CHOOSE k \in 0..(i - 1) :
        /\ \A m \in (i - k)..(i - 1) : bs[m] = BACKSLASH
        /\ (i - k - 1 >= 1 => bs[i - k - 1] # BACKSLASH)

\* Position i holds a backslash that introduces an escape.
IsEscapeStart(bs, i) == bs[i] = BACKSLASH /\ BackslashRun(bs, i) % 2 = 0

IllQuoted(bs) == StartsWithQuote(bs) /\ (Len(bs) = 1 \/ ~EndsWithQuote(bs))

DanglingBackslash(bs) == Len(bs) >= 1 /\ IsEscapeStart(bs, Len(bs))

IsOctalDigit(c) == 48 <= c /\ c <= 55

BadOctal(bs) ==
    \E i \in 1..Len(bs) :
        /\ IsEscapeStart(bs, i)
        /\ i + 1 <= Len(bs) /\ is_digit_in_ascii(bs[i + 1])
        /\ \/ i + 3 > Len(bs)
           \/ ~(IsOctalDigit(bs[i + 1]) /\ IsOctalDigit(bs[i + 2]) /\ IsOctalDigit(bs[i + 3]))
           \/ bs[i + 1] > 51

\* C7: decode_git_ls_tree_path fails with the codec's error (RuntimeError,
\* the spec's MalformedPath) and returns no text for every argument that
\* opens a quote it does not close (the lone double quote included), ends
\* in a backslash with nothing after it, or holds a backslash and a digit
\* that do not start three octal digits of a single byte.
C7_MalformedInputsFail ==
    (c_pc = "done"
     /\ (IllQuoted(content) \/ DanglingBackslash(Body(content)) \/ BadOctal(Body(content))))
    => decoded.exc = "RuntimeError"

\* The single-character C-style escapes and the byte each denotes.
CStyleEscape(c) ==
    CASE c = 97 -> 7 [] c = 98 -> 8 [] c = 116 -> 9 [] c = 110 -> 10 [] c = 118 -> 11
      [] c = 102 -> 12 [] c = 114 -> 13 [] c \in {DQUOTE, BACKSLASH, 39} -> c
      [] OTHER -> -1

\* The decoding rule as the specification words it: the bytes emitted, or
\* <<-1>> for MalformedPath.
RECURSIVE RuleBytes(_, _)
RuleBytes(bs, i) ==
    IF i > Len(bs) THEN <<>>
    ELSE LET emit(k, b) == LET r == RuleBytes(bs, i + k)
                           IN  IF r = <<-1>> THEN r ELSE <<b>> \o r
         IN  IF bs[i] # BACKSLASH THEN emit(1, bs[i])
             ELSE IF is_digit_in_ascii(bs[i + 1])
                  THEN emit(4, (bs[i + 1] - 48) * 64 + (bs[i + 2] - 48) * 8 + (bs[i + 3] - 48))
             ELSE IF CStyleEscape(bs[i + 1]) = -1 THEN <<-1>>
             ELSE emit(2, CStyleEscape(bs[i + 1]))

\* C8: on an argument whose quotes and octal escapes are well formed, every
\* unescaped byte is emitted unchanged, a backslash and three digits emit
\* the byte of that octal value, a backslash and another byte emit exactly
\* one byte, and the decode fails with the codec's error (RuntimeError,
\* the spec's MalformedPath) when that byte is no one-byte escape; the text
\* is the UTF-8 reading of the emitted bytes.
C8_DecodingRule ==
    (c_pc = "done"
     /\ ~IllQuoted(content) /\ ~DanglingBackslash(Body(content)) /\ ~BadOctal(Body(content)))
    => LET out == RuleBytes(Body(content), 1)
       IN  IF out = <<-1>> THEN decoded.exc = "RuntimeError"
           ELSE decoded = BytesThenDecode(out)

IsPrintableAscii(p) == \A i \in 1..Len(p) : 32 <= p[i] /\ p[i] <= 126

\* C9: decoding git's quoting of a path made of printable ASCII returns the
\* path unchanged.
C9_RoundTrip ==
    (c_pc = "done" /\ c_path # NoPath /\ IsPrintableAscii(c_path))
    => decoded = [exc |-> NoExc, text |-> c_path]

\* A printable path git had to quote (it holds a quote and a backslash)
\* came back from the codec.
C9_Witness ==
    /\ c_pc = "done" /\ c_path # NoPath /\ IsPrintableAscii(c_path)
    /\ DQUOTE \in Range(c_path) /\ BACKSLASH \in Range(c_path)
    /\ StartsWithQuote(content)
    /\ decoded.text = c_path

---------------------------------------------------------------------------
(* Claims about the command gateway.                                       *)

\* v is s without its leading and trailing whitespace.
IsTrimOf(v, s) ==
    /\ v = <<>> \/ (v[1] \notin Whitespace /\ v[Len(v)] \notin Whitespace)
    /\ \E i \in 0..Len(s) :
          /\ i + Len(v) <= Len(s)
          /\ SubSeq(s, i + 1, i + Len(v)) = v
          /\ \A k \in (1..i) \cup ((i + Len(v) + 1)..Len(s)) : s[k] \in Whitespace

Logged(what, val) == \E k \in 1..Len(g_log) : g_log[k] = [what |-> what, val |-> val]

\* C6: a command that exits non-zero under allow_fail=False is logged
\* (command, stdout, stderr, exit code) and ends the process with a
\* non-zero status, nothing being returned; under allow_fail=True the
\* failure is raised to the caller and the process lives; a command that
\* exits zero returns its stdout trimmed of surrounding whitespace.
C6_CallingConventions ==
    g_pc \notin {"off", "call"} =>
        /\ (g_result.returncode # 0 /\ ~g_allow_fail) =>
              /\ g_pc = "exited" /\ g_exit \notin {NotExited, 0} /\ g_value = NoValue
              /\ Logged("command", g_cmds) /\ Logged("code", g_result.returncode)
              /\ Logged("stdout", strip(g_result.stdout))
              /\ Logged("stderr", strip(g_result.stderr))
        /\ (g_result.returncode # 0 /\ g_allow_fail) =>
              g_pc = "raised" /\ g_exit = NotExited /\ g_value = NoValue
        /\ g_result.returncode = 0 =>
              g_pc = "returned" /\ g_exit = NotExited /\ IsTrimOf(g_value, g_result.stdout)

\* A failing command was raised to a caller that allowed the failure.
C6_Witness ==
    g_pc = "raised" /\ g_allow_fail /\ g_result.returncode = 128 /\ g_log # <<>>

---------------------------------------------------------------------------
(* Claims about the publish pipeline.                                      *)

\* The branches, the remote, the index and the files on disk are the same.
SameBranchesAndFiles(r, q) ==
    /\ r.head = q.head /\ r.refs = q.refs /\ r.tracking = q.tracking /\ r.remote = q.remote
    /\ r.commits = q.commits /\ r.index = q.index /\ r.wt = q.wt

Failed_ == pc \in {"exited", "crashed"}

\* C1: two runs of main() in a row, the second in the repository as the
\* first left it and the source commit unchanged, where the first run
\* published: one new commit on the target branch after the first run and
\* none after the second.
C1_TwoRunsOneCommit ==
    (/\ Len(runs) >= 2
     /\ runs[1].result = "done"
     /\ runs[2].result \in {"done", "up_to_date"}
     /\ runs[2].source = runs[1].source)
    => /\ runs[1].after = runs[1].before + 1
       /\ runs[2].after = runs[1].after

\* CHECK has decided: the run is past both of its statements.
CheckDecided ==
    pc \notin {"check_log", "check_head"} /\ failed_at \notin {"check_log", "check_head"}

\* C2: when CHECK finds the marker equal to the hash of HEAD the run ends
\* up to date: main() returns (exit status zero), nothing was collected
\* and the repository (current branch, files, index, local and remote
\* branches, config) is as the run found it.
C2_UpToDateNoMutation ==
    /\ (CheckDecided /\ last_worktree_info_target = last_master_branch_commit)
          => pc = "up_to_date"
    /\ pc = "up_to_date" =>
          /\ last_worktree_info_target = HashOf(HeadCommit(at_start))
          /\ exit_status = 0
          /\ repo = at_start
          /\ files_data = EmptyInfo /\ info = EmptyInfo /\ info_commit_hash = None

\* The run found origin/worktree carrying the marker and did nothing.
C2_Witness ==
    /\ pc = "up_to_date" /\ at_start.tracking # NoCommit
    /\ repo.head = "master" /\ repo.refs["worktree"] = NoCommit

\* The marker tokens of a message: the places <i, j> where a <| opens, a |>
\* closes and only [a-z0-9], at least one, lie between.
MarkerTokens(m) ==
    {ij \in (1..Len(m)) \X (1..Len(m)) :
        /\ ij[2] - ij[1] >= 4
        /\ m[ij[1]] = 60 /\ m[ij[1] + 1] = 124
        /\ m[ij[2] - 1] = 124 /\ m[ij[2]] = 62
        /\ \A k \in (ij[1] + 2)..(ij[2] - 2) : IsMarkerChar(m[k])}

\* m holds exactly one marker token, and it is the hash of HEAD as the run
\* found it.
OneMarkerOfHead(m) ==
    /\ Cardinality(MarkerTokens(m)) = 1
    /\ \A ij \in MarkerTokens(m) :
          SubSeq(m, ij[1] + 2, ij[2] - 2) = HashOf(HeadCommit(at_start))

\* C3 as stated: once CHECK has decided, the run is up to date if and only
\* if the last commit message of the target branch, all of it, holds exactly
\* one marker token and that token is the source commit hash.
C3_WholeMessageDecides ==
    CheckDecided =>
        (pc = "up_to_date" <=>
            /\ at_start.tracking # NoCommit
            /\ OneMarkerOfHead(at_start.commits[at_start.tracking].msg))

\* C3 amended: once CHECK has decided, the run is up to date if and only if
\* the subject of the last commit of origin/worktree, the line git log
\* --oneline prints, holds exactly one marker token and that token is the
\* hash of HEAD; otherwise it goes on to collect and publish.
C3_SubjectLineDecides ==
    CheckDecided =>
        /\ pc = "up_to_date" <=>
              /\ at_start.tracking # NoCommit
              /\ OneMarkerOfHead(Subject(at_start.commits[at_start.tracking].msg))
        /\ pc # "up_to_date" => (pc = "publish_head" \/ info_commit_hash # None
                                   \/ failed_at = "publish_head")

\* A message whose subject is the marker of HEAD and whose body holds a
\* second marker ended the run up to date.
C3_Witness ==
    /\ pc = "up_to_date"
    /\ at_start.tracking # NoCommit
    /\ at_start.commits[at_start.tracking].msg
         = MarkerOf(HashOf(HeadCommit(at_start))) \o PARAGRAPH_BREAK \o MarkerOf(HashOf(2))

\* C4: when origin/worktree does not exist, reading its last message fails
\* and get_last_worktree_info_target returns None: the process does not end
\* there, the run is not up to date, and it goes on to COLLECT.
C4_MissingBranchIsNoMarker ==
    at_start.tracking = NoCommit =>
        /\ last_worktree_info_target = None
        /\ failed_at # "check_log"
        /\ pc # "up_to_date"
        /\ (pc = "check_head" => exit_status = NotExited)

\* Without origin/worktree the run reached the collector.
C4_Witness ==
    /\ at_start.tracking = NoCommit /\ pc = "commit_graph"
    /\ last_worktree_info_target = None /\ last_master_branch_commit # None

\* C5 as stated: whatever fatal error ends a run, the branches, the index
\* and the files are as the run found them.
C5_AnyFailureLeavesNoTrace ==
    Failed_ => SameBranchesAndFiles(repo, at_start)

\* The statements that run before the working tree is switched.
BeforeSwitch == {"check_log", "check_head", "publish_head", "commit_graph", "ls_tree", "log"}

\* C5 amended: a fatal error during CHECK or COLLECT ends the run with a
\* non-zero status before any file is written or branch changed: branches,
\* index and files are as the run found them.
C5_FailureBeforeSwitchLeavesNoTrace ==
    (Failed_ /\ failed_at \in BeforeSwitch)
    => exit_status = 1 /\ SameBranchesAndFiles(repo, at_start)

\* A history query failed in the middle of the collector's second loop.
C5_Witness ==
    /\ pc = "exited" /\ failed_at = "log"
    /\ fp_idx = 2 /\ Len(files_path) = 2

---------------------------------------------------------------------------
(* Claims about the collector.                                             *)

\* The text of a path of the tree.
TextOf(p) == Utf8Decode(p, 1)

\* C10: the mapping collect_info_for_head_commit returns for a tree of N
\* files has N entries, one per path of the tree, each with the file's
\* size and with the time and hash of one commit: the last one, reachable
\* from HEAD, that touched the path.
C10_SnapshotComplete ==
    pc = "checkout" =>
        LET h == HeadCommit(repo)
            tree == TreeOf(repo, h)
        IN  /\ Cardinality(DOMAIN info) = Cardinality(DOMAIN tree)
            /\ DOMAIN info = {TextOf(p) : p \in DOMAIN tree}
            /\ \A p \in DOMAIN tree :
                 TextOf(p) \in DOMAIN info =>
                    LET e == info[TextOf(p)]
                        c == LastTouch(repo, h, p)
                    IN  /\ e.size = tree[p].size
                        /\ c \in Ancestors(repo, h)
                        /\ e.time = TimeOf(c) /\ e.hash = HashOf(c)

\* The history query for files_path[fp_idx] has no commit to report.
MissingRecord ==
    /\ fp_idx \in 1..Len(files_path)
    /\ LastTouch(repo, HeadCommit(repo), Utf8Encode(files_path[fp_idx])) = NoCommit

\* A step of a run whose history query has no result ends the run at that
\* query; a run ended there takes no further step.
MissingHistoryStep ==
    /\ (pc = "log" /\ MissingRecord) =>
          /\ pc' \in {"crashed", "exited"} /\ failed_at' = "log" /\ exit_status' = 1
          /\ info' = EmptyInfo
          /\ SameBranchesAndFiles(repo', repo)
    /\ (Failed_ /\ failed_at = "log") => UNCHANGED vars

\* C11: when the history query for a listed path returns no result the run
\* ends there, during COLLECT, with a non-zero status: no Snapshot is
\* returned, branches, index and files stay as they are, and no step of the
\* run (switch, write, commit, push) follows.
C11_MissingHistoryIsFatal == [][MissingHistoryStep]_vars

\* The query for "a" (the listing's "a " with its space stripped) came back
\* empty and the run crashed.
C11_Witness ==
    /\ pc = "crashed" /\ failed_at = "log" /\ MissingRecord
    /\ info = EmptyInfo /\ repo.head = "master"

---------------------------------------------------------------------------
(* Claims about what a publish commits.                                    *)

\* The Snapshot of commit c of r: one record per path of its tree, with the
\* blob's size and the time and hash of the last commit that touched it.
SnapshotOf(r, c) ==
    LET tree == TreeOf(r, c)
        of(t) == CHOOSE p \in DOMAIN tree : TextOf(p) = t
    IN  [t \in {TextOf(p) : p \in DOMAIN tree} |->
            [size |-> tree[of(t)].size,
             time |-> TimeOf(LastTouch(r, c, of(t))),
             hash |-> HashOf(LastTouch(r, c, of(t)))]]

\* The commit the run published: HEAD as the run found it.
SourceOfRun == HeadCommit(at_start)

\* The commits made since the run started.
NewCommits == (Len(at_start.commits) + 1)..Len(repo.commits)

\* C12: after a run that reached DONE for source commit C the head of the
\* target branch holds worktree.json and history/<C>.json, the two with the
\* same content, which is the Snapshot of C's tree, one record per path;
\* and no commit is made of a file whose write did not complete.
C12_PublishedSnapshot ==
    /\ pc = "done" =>
          LET tree == TreeOf(repo, repo.refs[WORKTREE_BRANCH])
              hist == HistoryPath(HashOf(SourceOfRun))
          IN  /\ WORKTREE_JSON \in DOMAIN tree /\ hist \in DOMAIN tree
              /\ tree[WORKTREE_JSON] = tree[hist]
              /\ tree[WORKTREE_JSON] = JsonFile(SnapshotOf(at_start, SourceOfRun))
    /\ \A c \in NewCommits :
          \A p \in DOMAIN repo.commits[c].tree : repo.commits[c].tree[p].kind # "partial"

\* The tree at the head of the target branch at origin.
TargetTree(r) == TreeOf(r, r.remote)

\* The files under history/ of a tree.
HistoryFiles(tree) == {p \in DOMAIN tree : IsUnder(p, HISTORY_DIR)}

\* A step keeps every history file of the target branch, content included;
\* a step that moves the branch adds or replaces nothing but worktree.json
\* and the history file of the run's source commit.
HistoryKeptStep ==
    LET old == TargetTree(repo)
        new == TargetTree(repo')
    IN  /\ \A p \in HistoryFiles(old) : p \in DOMAIN new /\ new[p] = old[p]
        /\ repo'.remote # repo.remote =>
              /\ pc' = "done"
              /\ \A p \in DOMAIN new :
                    (p \notin DOMAIN old \/ new[p] # old[p])
                       => p \in {WORKTREE_JSON, HistoryPath(HashOf(SourceOfRun))}
              /\ \A p \in DOMAIN old : p \in DOMAIN new

\* C13: over any sequence of publishes a history file of the target branch
\* is never removed and never changes; a publish adds the history file of
\* its source commit and replaces worktree.json, nothing else; publishing a
\* commit again leaves its history file as it is.
C13_HistoryAppendOnly == [][HistoryKeptStep]_vars

\* The source branch went back to a commit published before, the commit was
\* published again, and its history file is still on the target branch
\* beside the one of the commit published in between.
C13_Witness ==
    /\ pc = "done" /\ Len(runs) = 3
    /\ \A i \in 1..3 : runs[i].result = "done"
    /\ runs[1].source = runs[3].source /\ runs[2].source # runs[1].source
    /\ {HistoryPath(HashOf(runs[1].source)), HistoryPath(HashOf(runs[2].source))}
          \subseteq HistoryFiles(TargetTree(repo))

---------------------------------------------------------------------------
(* Claims about the marker.                                                *)

\* 'update worktree info for <|hash|>'
MarkedMessage(hash) ==
    <<117, 112, 100, 97, 116, 101, 32, 119, 111, 114, 107, 116, 114, 101, 101, 32,
      105, 110, 102, 111, 32, 102, 111, 114, 32, 60, 124>> \o hash \o <<124, 62>>

\* The head of origin/worktree, as the run found it, is the commit a
\* publish of c writes.
TargetMarks(c) ==
    /\ at_start.tracking # NoCommit
    /\ at_start.commits[at_start.tracking].msg = MarkedMessage(HashOf(c))

\* C14: the commit a publish of C makes says 'update worktree info for
\* <|C|>'; get_last_worktree_info_target on a target branch whose head is
\* such a commit returns C; so a CHECK for source commit C right after a
\* publish of C is up to date.
C14_MarkerRoundTrip ==
    /\ pc = "done" =>
          /\ repo.tracking = Len(repo.commits)
          /\ repo.commits[repo.tracking].msg = MarkedMessage(HashOf(SourceOfRun))
    /\ \A c \in 1..Len(at_start.commits) :
          TargetMarks(c) =>
             /\ (pc # "check_log" /\ failed_at # "check_log")
                   => last_worktree_info_target = HashOf(c)
             /\ (CheckDecided /\ c = HeadCommit(at_start)) => pc = "up_to_date"

\* A commit was published, the source branch was checked out again at the
\* same commit, and the next run ended up to date.
C14_Witness ==
    /\ pc = "up_to_date" /\ Len(runs) >= 2
    /\ runs[Len(runs) - 1].result = "done"
    /\ TargetMarks(HeadCommit(at_start))
    /\ at_start.tracking = Len(at_start.commits)

---------------------------------------------------------------------------
(* Claims about the README's warning block.                                *)

\* A start marker with an end marker after it.
HasBlock(text) ==
    \E i \in 1..Len(text), j \in 1..Len(text) :
        i < j /\ text[i] = WARNING_START /\ text[j] = WARNING_END

OneBlockAtTop(text) ==
    /\ Len(text) >= Len(_build_block)
    /\ SubSeq(text, 1, Len(_build_block)) = _build_block
    /\ ~HasBlock(SubSeq(text, Len(_build_block) + 1, Len(text)))

SetWarning(file) == _update_warning(file, TRUE)
ClearWarning(file) == _update_warning(file, FALSE)

RunOnMainLeavesBlockByOutcome ==
    (rd_pc = "returned" /\ is_main) =>
        /\ rd_ok = "ok" => ~HasBlock(readme.text)
        /\ rd_ok = "failed" => OneBlockAtTop(readme.text)

SetTwiceIsSetOnce ==
    rd_pc = "returned" =>
        SetWarning(SetWarning(rd_before)) = SetWarning(rd_before)
ClearTwiceIsClearOnce ==
    rd_pc = "returned" =>
        ClearWarning(ClearWarning(rd_before)) = ClearWarning(rd_before)
SetThenClearRestores ==
    rd_pc = "returned" =>
        ClearWarning(SetWarning(rd_before)).text = ClearWarning(rd_before).text

OffMainUntouched ==
    (rd_pc = "returned" /\ ~is_main) => readme = rd_generated

\* C15: on main a run that succeeded leaves README.md without a warning
\* block and a run that failed leaves it with exactly one, at the top;
\* setting twice or clearing twice is the same as doing it once, and
\* clearing after setting gives the README's content without the block;
\* off main the warning block is not touched.
C15_WarningBlock ==
    /\ RunOnMainLeavesBlockByOutcome
    /\ SetTwiceIsSetOnce
    /\ ClearTwiceIsClearOnce
    /\ SetThenClearRestores
    /\ OffMainUntouched

---------------------------------------------------------------------------
(* Claims about the order of a publish.                                    *)

\* The statements that ask git about HEAD's commit and tree.
Queries == {"publish_head", "commit_graph", "ls_tree", "log"}

\* The statements from the switch of branch on, and the end of a publish.
FromSwitch ==
    {"checkout", "orphan", "rm", "save_worktree", "save_history",
     "config_email", "config_name", "add", "commit", "push", "done"}

\* A step of a run: queries are made in the repository as the run found
\* it, the switch starts with the hash resolved and every path queried,
\* and from the switch on what was collected stays as it is.
CollectThenSwitchStep ==
    /\ (pc \in Queries /\ pc' # pc) => SameBranchesAndFiles(repo, at_start)
    /\ (pc \in Queries /\ pc' \in FromSwitch) =>
          /\ pc \in {"ls_tree", "log"} /\ pc' = "checkout"
          /\ info_commit_hash' = HashOf(SourceOfRun)
          /\ fp_idx' = Len(files_path') + 1 /\ info' = files_data'
    /\ (pc \in FromSwitch /\ pc' # "check_log") =>
          /\ pc' \notin Queries
          /\ info' = info /\ info_commit_hash' = info_commit_hash
          /\ files_data' = files_data

\* What a publish committed is about HEAD as the run found it.
PublishedDescribesSource ==
    pc = "done" =>
        /\ repo.commits[repo.refs[WORKTREE_BRANCH]].msg = MarkedMessage(HashOf(SourceOfRun))
        /\ TreeOf(repo, repo.refs[WORKTREE_BRANCH])[WORKTREE_JSON]
              = JsonFile(SnapshotOf(at_start, SourceOfRun))

\* The commit a publish describes is no commit of the target branch.
SourceIsNotTarget ==
    pc = "done" => SourceOfRun \notin TargetCommits(at_start)

\* C16: in every run that publishes, the hash of the source commit is
\* resolved and the whole Snapshot collected before the branch is switched,
\* no tree listing or history query comes after the switch, and what is
\* published (Snapshot and marker) describes the source commit and never
\* the state of the target branch.
C16_CollectBeforeSwitch ==
    /\ [][CollectThenSwitchStep]_vars
    /\ [](PublishedDescribesSource /\ SourceIsNotTarget)

---------------------------------------------------------------------------
(* Claims about the commit and the push.                                   *)

\* The two files a publish writes.
Destinations == {WORKTREE_JSON, HistoryPath(info_commit_hash)}

\* The paths on which two trees differ.
Changed(old, new) == {p \in DOMAIN old \cup DOMAIN new : Get(old, p) # Get(new, p)}

\* A step of COMMIT_PUSH: git add stages the two files and nothing else;
\* the commit has the target branch's previous head as parent and differs
\* from it on the two files only, and is a root commit of just the two
\* files when the branch is new; the push follows a commit that succeeded,
\* sends that commit and is the run's last step.
CommitPushStep ==
    /\ (pc = "add" /\ pc' = "commit") =>
          /\ Changed(repo.index, repo'.index) \subseteq Destinations
          /\ Destinations \subseteq DOMAIN repo'.index
    /\ (pc = "commit" /\ pc' # pc) =>
          \/ Failed_' /\ repo'.commits = repo.commits
          \/ /\ pc' = "push"
             /\ Len(repo'.commits) = Len(repo.commits) + 1
             /\ LET prev == repo.refs[WORKTREE_BRANCH]
                     new == repo'.commits[Len(repo'.commits)]
                IN  /\ repo'.refs[WORKTREE_BRANCH] = Len(repo'.commits)
                    /\ new.parent = prev
                    /\ Changed(TreeOf(repo, prev), new.tree) \subseteq Destinations
                    /\ Destinations \subseteq DOMAIN new.tree
                    /\ prev = NoCommit => DOMAIN new.tree = Destinations
    /\ pc' = "push" => pc \in {"commit", "push"}
    /\ repo'.commits # repo.commits => pc = "commit"
    /\ repo'.remote # repo.remote =>
          /\ pc = "push" /\ pc' = "done"
          /\ repo'.remote = repo.refs[WORKTREE_BRANCH]
          /\ repo'.remote \in NewCommits
    /\ pc = "done" => pc' \in {"done", "check_log"}

\* C17: git add stages worktree.json and history/<C>.json and nothing
\* else; the commit of a publish differs from the target branch's previous
\* head on those two paths only; on a branch created as an orphan the first
\* commit has no parent and a tree of exactly those two files; the push is
\* the last step and comes only after the commit succeeded.
C17_CommitTwoPathsThenPush == [][CommitPushStep]_vars

\* A publish from a checkout with files to a branch that did not exist:
\* the commit pushed has no parent and the two files.
C17_Witness ==
    /\ pc = "done"
    /\ at_start.refs[WORKTREE_BRANCH] = NoCommit /\ at_start.tracking = NoCommit
    /\ DOMAIN TreeOf(at_start, HeadCommit(at_start)) # {}
    /\ repo.remote = Len(repo.commits)
    /\ repo.commits[repo.remote].parent = NoCommit
    /\ DOMAIN repo.commits[repo.remote].tree = Destinations

=============================================================================
